---- MODULE Spec2Model ----
(***************************************************************************)
(* The reversible-operation engine of                                      *)
(* src/coomportamentais/command/exemplo_command.py: the receiver           *)
(* FileSystem, the commands CreateFileCommand / RenameFileCommand /        *)
(* DeleteFileCommand, and the invoker CommandInvoker with its _history.    *)
(***************************************************************************)
EXTENDS Naturals, Sequences, FiniteSets

\* Number of invoker calls a behaviour makes before it stops.
MaxCalls == 4

\* Number of invoker calls a behaviour of the demonstration's commands makes.
MaxDemoCalls == 7

\* ------------------------------------------------------------------------
\* The receiver.  FileSystem keeps no fields: each method prints the
\* operation it simulates.  The resource the operations are about is read
\* as a file store, a map from file name to content, on which create_file
\* adds an empty file, rename_file moves a file and delete_file removes one.
\* No method rejects a call: none has a guard or raises.
\* ------------------------------------------------------------------------
Names == {"a.txt", "b.txt"}

Absent == "absent"
Empty == "empty"
Data == "data"
Contents == {Empty, Data}

FileStates == [Names -> {Absent} \cup Contents]

NoFiles == [n \in Names |-> Absent]

create_file(fs, name) ==
    IF fs[name] = Absent THEN [fs EXCEPT ![name] = Empty] ELSE fs

rename_file(fs, old_name, new_name) ==
    IF fs[old_name] = Absent \/ old_name = new_name
    THEN fs
    ELSE [fs EXCEPT ![new_name] = fs[old_name], ![old_name] = Absent]

delete_file(fs, name) == [fs EXCEPT ![name] = Absent]

\* ------------------------------------------------------------------------
\* Commands.  An instance is identified by its class and constructor
\* arguments.  RaiseOnExecute and RaiseOnUndo stand for subclasses of the
\* abstract Command whose execute, respectively undo, raises an exception
\* with reason `name`.
\* ------------------------------------------------------------------------
Cmd(k, n, m) == [kind |-> k, name |-> n, new |-> m]

NoCmd == Cmd("None", "", "")

CreateFileCommand(filename) == Cmd("Create", filename, "")

RenameFileCommand(old_name, new_name) == Cmd("Rename", old_name, new_name)

DeleteFileCommand(filename) == Cmd("Delete", filename, "")

RaiseOnExecute == Cmd("RaiseOnExecute", "execute rejected", "")

RaiseOnUndo == Cmd("RaiseOnUndo", "undo rejected", "")

Commands ==
    {CreateFileCommand(n) : n \in Names}
    \cup {DeleteFileCommand(n) : n \in Names}
    \cup {RenameFileCommand(n, m) : <<n, m>> \in {p \in Names \X Names : p[1] # p[2]}}
    \cup {RaiseOnExecute, RaiseOnUndo}

\* What a method of a command does: whether it returns, the exception's
\* reason when it raises, and the file store it leaves.
Done(fs) == [ok |-> TRUE, reason |-> "", fs |-> fs]

Fails(why, fs) == [ok |-> FALSE, reason |-> why, fs |-> fs]

\* The call a command method issues to its FileSystem, and what the call
\* does to the file store.
FsCall(fn, a, b) == [fn |-> fn, a |-> a, b |-> b]

NoFsCall == FsCall("none", "", "")

perform(call, fs) ==
    CASE call.fn = "create_file" -> create_file(fs, call.a)
      [] call.fn = "rename_file" -> rename_file(fs, call.a, call.b)
      [] call.fn = "delete_file" -> delete_file(fs, call.a)
      [] OTHER -> fs

execute_call(cmd) ==
    CASE cmd.kind = "Create" -> FsCall("create_file", cmd.name, "")
      [] cmd.kind = "Rename" -> FsCall("rename_file", cmd.name, cmd.new)
      [] cmd.kind = "Delete" -> FsCall("delete_file", cmd.name, "")
      [] OTHER -> NoFsCall

undo_callSameDirection(cmd) ==
    CASE cmd.kind = "Create" -> FsCall("delete_file", cmd.name, "")
      [] cmd.kind = "Rename" -> FsCall("rename_file", cmd.name, cmd.new)
      [] cmd.kind = "Delete" -> FsCall("create_file", cmd.name, "")
      [] OTHER -> NoFsCall

undo_call(cmd) ==
    CASE cmd.kind = "Create" -> FsCall("delete_file", cmd.name, "")
      [] cmd.kind = "Rename" -> FsCall("rename_file", cmd.new, cmd.name)
      [] cmd.kind = "Delete" -> FsCall("create_file", cmd.name, "")
      [] OTHER -> NoFsCall

execute(cmd, fs) ==
    IF cmd.kind = "RaiseOnExecute"
    THEN Fails(cmd.name, fs)
    ELSE Done(perform(execute_call(cmd), fs))

undo(cmd, fs) ==
    IF cmd.kind = "RaiseOnUndo"
    THEN Fails(cmd.name, fs)
    ELSE Done(perform(undo_call(cmd), fs))

\* ------------------------------------------------------------------------
\* The invoker.
\*   history  CommandInvoker._history
\*   files    the file store behind the FileSystem the commands are bound to
\*   outcome  how the last call of the invoker ended
\*   log      the calls made on the invoker so far, each with the command
\*            methods it invoked (a record of the run, not program state)
\*   files0   the file store at construction (a record, not program state)
\*   limit    the number of calls the behaviour makes (not program state)
\* ------------------------------------------------------------------------
VARIABLES history, files, outcome, log, files0, limit

\* The other programs of the repository, one variable each.  Each program is
\* run on its own: while one runs, the variables of the others stay at Idle.
\*   player     the MusicPlayer of state/exemplo_state.py
\*   editor     the TextEditor and History of mememnto/exemplo_memento.py
\*   proxies    the SensitiveDataProxy objects of proxy/exemplo_proxy.py
\*   config     the ConfiguracaoSistema class of sigleton/configuration_system.py
\*   factory    the SoldierFactory class of flyweight/exemplo_flyweight.py
\*   station    the WeatherStation of observer/exemplo_observer.py
\*   chat       the ChatRoom of mediator/exemplo_mediator.py
VARIABLES player, editor, proxies, config, factory, station, chat

invoker == <<history, files, outcome, log, files0, limit>>

others == <<player, editor, proxies, config, factory, station, chat>>

vars == <<history, files, outcome, log, files0, limit,
          player, editor, proxies, config, factory, station, chat>>

Idle == "idle"

OthersIdle ==
    /\ player = Idle
    /\ editor = Idle
    /\ proxies = Idle
    /\ config = Idle
    /\ factory = Idle
    /\ station = Idle
    /\ chat = Idle

Returned == [kind |-> "returned", info |-> ""]

NothingToUndo == [kind |-> "returned", info |-> "[Invoker] Nada para desfazer."]

Raised(why) == [kind |-> "raised", info |-> why]

NotCalled == [kind |-> "none", info |-> ""]

Invoked(cmd, method) == [op |-> cmd, method |-> method]

Entry(call, arg, calls, ok) == [call |-> call, arg |-> arg, calls |-> calls, ok |-> ok]

\* The invoker has one field, _history.  It keeps no record of the commands
\* it has undone: the sequence of undone commands it could reapply is empty
\* in every state.
redo_stack == << >>

undo_stack == history

Init ==
    /\ history = << >>
    /\ files \in FileStates
    /\ files0 = files
    /\ outcome = NotCalled
    /\ log = << >>
    /\ limit = MaxCalls
    /\ OthersIdle

\* CommandInvoker.run: command.execute(), then _history.append(command).
\* An exception of execute leaves run before the append.
RunAppendsFirst(command) ==
    LET r == execute(command, files) IN
    /\ Len(log) < limit
    /\ files' = r.fs
    /\ history' = Append(history, command)
    /\ outcome' = IF r.ok THEN Returned ELSE Raised(r.reason)
    /\ log' = Append(log, Entry("run", command, <<Invoked(command, "execute")>>, r.ok))
    /\ UNCHANGED <<files0, limit, others>>

RunPrepends(command) ==
    LET r == execute(command, files) IN
    /\ Len(log) < limit
    /\ files' = r.fs
    /\ history' = IF r.ok THEN <<command>> \o history ELSE history
    /\ outcome' = IF r.ok THEN Returned ELSE Raised(r.reason)
    /\ log' = Append(log, Entry("run", command, <<Invoked(command, "execute")>>, r.ok))
    /\ UNCHANGED <<files0, limit, others>>

RunSwallowsFailure(command) ==
    LET r == execute(command, files) IN
    /\ Len(log) < limit
    /\ files' = r.fs
    /\ history' = IF r.ok THEN Append(history, command) ELSE history
    /\ outcome' = Returned
    /\ log' = Append(log, Entry("run", command, <<Invoked(command, "execute")>>, r.ok))
    /\ UNCHANGED <<files0, limit, others>>

RunNoAppend(command) ==
    LET r == execute(command, files) IN
    /\ Len(log) < limit
    /\ files' = r.fs
    /\ history' = history
    /\ outcome' = IF r.ok THEN Returned ELSE Raised(r.reason)
    /\ log' = Append(log, Entry("run", command, <<Invoked(command, "execute")>>, r.ok))
    /\ UNCHANGED <<files0, limit, others>>

Run(command) ==
    LET r == execute(command, files) IN
    /\ Len(log) < limit
    /\ files' = r.fs
    /\ history' = IF r.ok THEN Append(history, command) ELSE history
    /\ outcome' = IF r.ok THEN Returned ELSE Raised(r.reason)
    /\ log' = Append(log, Entry("run", command, <<Invoked(command, "execute")>>, r.ok))
    /\ UNCHANGED <<files0, limit, others>>

\* CommandInvoker.undo_last: on an empty _history print and return;
\* otherwise pop the last command and call its undo.
Front(s) == SubSeq(s, 1, Len(s) - 1)

Last(s) == s[Len(s)]

UndoLastNoGuard ==
    /\ Len(log) < limit
    /\ IF history = << >>
       THEN /\ outcome' = Raised("IndexError: pop from empty list")
            /\ log' = Append(log, Entry("undo_last", NoCmd, << >>, FALSE))
            /\ UNCHANGED <<history, files>>
       ELSE LET last_command == Last(history)
                r == undo(last_command, files) IN
            /\ history' = Front(history)
            /\ files' = r.fs
            /\ outcome' = IF r.ok THEN Returned ELSE Raised(r.reason)
            /\ log' = Append(log, Entry("undo_last", NoCmd,
                                        <<Invoked(last_command, "undo")>>, r.ok))
    /\ UNCHANGED <<files0, limit, others>>

UndoLastPopsAfterUndo ==
    /\ Len(log) < limit
    /\ IF history = << >>
       THEN /\ outcome' = NothingToUndo
            /\ log' = Append(log, Entry("undo_last", NoCmd, << >>, TRUE))
            /\ UNCHANGED <<history, files>>
       ELSE LET last_command == Last(history)
                r == undo(last_command, files) IN
            /\ history' = IF r.ok THEN Front(history) ELSE history
            /\ files' = r.fs
            /\ outcome' = IF r.ok THEN Returned ELSE Raised(r.reason)
            /\ log' = Append(log, Entry("undo_last", NoCmd,
                                        <<Invoked(last_command, "undo")>>, r.ok))
    /\ UNCHANGED <<files0, limit, others>>

UndoLastNoPop ==
    /\ Len(log) < limit
    /\ IF history = << >>
       THEN /\ outcome' = NothingToUndo
            /\ log' = Append(log, Entry("undo_last", NoCmd, << >>, TRUE))
            /\ UNCHANGED <<history, files>>
       ELSE LET last_command == Last(history)
                r == undo(last_command, files) IN
            /\ history' = history
            /\ files' = r.fs
            /\ outcome' = IF r.ok THEN Returned ELSE Raised(r.reason)
            /\ log' = Append(log, Entry("undo_last", NoCmd,
                                        <<Invoked(last_command, "undo")>>, r.ok))
    /\ UNCHANGED <<files0, limit, others>>

UndoLastPopsFirst ==
    /\ Len(log) < limit
    /\ IF history = << >>
       THEN /\ outcome' = NothingToUndo
            /\ log' = Append(log, Entry("undo_last", NoCmd, << >>, TRUE))
            /\ UNCHANGED <<history, files>>
       ELSE LET last_command == Head(history)
                r == undo(last_command, files) IN
            /\ history' = Tail(history)
            /\ files' = r.fs
            /\ outcome' = IF r.ok THEN Returned ELSE Raised(r.reason)
            /\ log' = Append(log, Entry("undo_last", NoCmd,
                                        <<Invoked(last_command, "undo")>>, r.ok))
    /\ UNCHANGED <<files0, limit, others>>

UndoLast ==
    /\ Len(log) < limit
    /\ IF history = << >>
       THEN /\ outcome' = NothingToUndo
            /\ log' = Append(log, Entry("undo_last", NoCmd, << >>, TRUE))
            /\ UNCHANGED <<history, files>>
       ELSE LET last_command == Last(history)
                r == undo(last_command, files) IN
            /\ history' = Front(history)
            /\ files' = r.fs
            /\ outcome' = IF r.ok THEN Returned ELSE Raised(r.reason)
            /\ log' = Append(log, Entry("undo_last", NoCmd,
                                        <<Invoked(last_command, "undo")>>, r.ok))
    /\ UNCHANGED <<files0, limit, others>>

\* CommandInvoker defines __init__, run and undo_last only.  A call of
\* invoker.redo() fails at the attribute lookup: AttributeError is raised
\* before any command method is invoked.
RedoReturnsEmptyHistory ==
    /\ Len(log) < limit
    /\ outcome' = [kind |-> "returned", info |-> "EmptyHistory"]
    /\ log' = Append(log, Entry("redo", NoCmd, << >>, TRUE))
    /\ UNCHANGED <<history, files, files0, limit, others>>

Redo ==
    /\ Len(log) < limit
    /\ outcome' = Raised("AttributeError: 'CommandInvoker' object has no attribute 'redo'")
    /\ log' = Append(log, Entry("redo", NoCmd, << >>, FALSE))
    /\ UNCHANGED <<history, files, files0, limit, others>>

Next ==
    \/ \E command \in Commands : Run(command)
    \/ UndoLast
    \/ Redo

Spec == Init /\ [][Next]_vars

\* The demonstration: a fresh FileSystem and invoker, and the three commands
\* of __main__, run and undone in any order.
DemoCommands ==
    {CreateFileCommand("a.txt"), RenameFileCommand("a.txt", "b.txt"),
     DeleteFileCommand("b.txt")}

DemoInit ==
    /\ history = << >>
    /\ files = NoFiles
    /\ files0 = files
    /\ outcome = NotCalled
    /\ log = << >>
    /\ limit = MaxDemoCalls
    /\ OthersIdle

DemoNext ==
    \/ \E command \in DemoCommands : Run(command)
    \/ UndoLast
    \/ Redo

DemoSpec == DemoInit /\ [][DemoNext]_vars

\* ------------------------------------------------------------------------
\* Reading the record of calls.
\* ------------------------------------------------------------------------
\* The step is one call `call` of the invoker.
Called(call) == Len(log') = Len(log) + 1 /\ Last(log').call = call

\* The first 2n calls were n runs that returned followed by n undo_last
\* calls that each popped a command whose undo returned.
RunsThenUndos(n) ==
    /\ Len(log) >= 2 * n
    /\ \A i \in 1..n : log[i].call = "run" /\ log[i].ok
    /\ \A i \in (n + 1)..(2 * n) :
          log[i].call = "undo_last" /\ log[i].ok /\ log[i].calls # << >>

C2_FailedExecuteLeavesHistory ==
    [][(Called("run") /\ ~Last(log').ok)
         => /\ undo_stack' = undo_stack
            /\ redo_stack' = redo_stack
            /\ outcome' = Raised(execute(Last(log').arg, files).reason)
            /\ outcome'.info # ""]_vars

\* A run whose execute raised, on a history holding a command.
C2_Witness ==
    /\ log # << >>
    /\ Last(log).call = "run" /\ ~Last(log).ok
    /\ outcome = Raised(RaiseOnExecute.name)
    /\ history # << >>

\* ------------------------------------------------------------------------
\* C3: undo_last on an empty undo_stack returns the nothing-to-undo
\* outcome, a normal return and not an error, calls no command's undo, and
\* leaves undo_stack, redo_stack and the resource unchanged.
\* ------------------------------------------------------------------------
C3_UndoOnEmptyIsNoOp ==
    [][(Called("undo_last") /\ undo_stack = << >>)
         => /\ outcome' = NothingToUndo
            /\ outcome'.kind = "returned"
            /\ Last(log').calls = << >>
            /\ undo_stack' = undo_stack
            /\ redo_stack' = redo_stack
            /\ files' = files]_vars

\* An undo_last that found the history empty after earlier work.
C3_Witness ==
    /\ Len(log) >= 3
    /\ Last(log).call = "undo_last"
    /\ Last(log).calls = << >>
    /\ outcome = NothingToUndo
    /\ history = << >>

C5_UndoingAllRestoresResource ==
    \A n \in 1..MaxCalls :
        (Len(log) = 2 * n /\ RunsThenUndos(n)) => files = files0

RunUndoRun ==
    /\ Len(log) >= 3
    /\ log[1].call = "run" /\ log[1].ok
    /\ log[2].call = "undo_last" /\ log[2].ok
    /\ log[3].call = "run" /\ log[3].ok
    /\ log[1].arg # log[3].arg

Issued(i) ==
    [j \in 1..Len(log[i].calls) |->
        IF log[i].calls[j].method = "execute"
        THEN execute_call(log[i].calls[j].op)
        ELSE undo_call(log[i].calls[j].op)]

\* The first calls are those of the demonstration, as far as the log goes.
DemoScript ==
    /\ files0 = NoFiles
    /\ Len(log) >= 4
    /\ log[1].call = "run" /\ log[1].arg = CreateFileCommand("a.txt")
    /\ log[2].call = "run" /\ log[2].arg = RenameFileCommand("a.txt", "b.txt")
    /\ log[3].call = "run" /\ log[3].arg = DeleteFileCommand("b.txt")
    /\ \A i \in 4..Len(log) : i <= 7 => log[i].call = "undo_last"

C11_DemoUndoesInReverse ==
    DemoScript
      => /\ Issued(4) = <<FsCall("create_file", "b.txt", "")>>
         /\ Len(log) >= 5 => Issued(5) = <<FsCall("rename_file", "b.txt", "a.txt")>>
         /\ Len(log) >= 6 => Issued(6) = <<FsCall("delete_file", "a.txt", "")>>
         /\ Len(log) = 6 => files = files0 /\ history = << >>
         /\ Len(log) = 7
              => /\ Issued(7) = << >>
                 /\ outcome = NothingToUndo
                 /\ files = files0
                 /\ history = << >>

\* The demonstration run to its end: three runs and four undo_last calls.
C11_Witness ==
    /\ DemoScript
    /\ Len(log) = 7
    /\ outcome = NothingToUndo
    /\ files = NoFiles

\* ------------------------------------------------------------------------
\* C12: in every reachable state undo_stack lists operations in the order
\* their forward action was last successfully applied, oldest first and
\* most recent last, and no run, undo_last or redo reorders the entries
\* that remain in undo_stack: a step leaves undo_stack as it is, removes
\* its last entry, or adds the operation just applied after the others.
\* ------------------------------------------------------------------------
RECURSIVE IsSubseq(_, _)
IsSubseq(h, l) ==
    IF h = << >> THEN TRUE
    ELSE IF l = << >> THEN FALSE
    ELSE IF Head(h) = Head(l) THEN IsSubseq(Tail(h), Tail(l))
    ELSE IsSubseq(h, Tail(l))

ReturnedRun(e) == e.call = "run" /\ e.ok

\* The operations whose execute returned, in the order they were run.
Applied ==
    LET runs == SelectSeq(log, ReturnedRun) IN
    [i \in 1..Len(runs) |-> runs[i].arg]

InExecutionOrder == IsSubseq(undo_stack, Applied)

C12_UndoStackKeepsExecutionOrder ==
    /\ []InExecutionOrder
    /\ [][\/ undo_stack' = undo_stack
          \/ undo_stack # << >> /\ undo_stack' = Front(undo_stack)
          \/ /\ Called("run") /\ Last(log').ok
             /\ undo_stack' = Append(undo_stack, Last(log').arg)]_vars

\* Two different operations in the history, the newer one run after an
\* undo_last had removed another.
C12_Witness ==
    /\ Len(log) = 4
    /\ log[3].call = "undo_last" /\ log[3].calls # << >>
    /\ Len(history) = 2
    /\ history[1] # history[2]
    /\ history = <<log[1].arg, log[4].arg>>

\* ------------------------------------------------------------------------
\* C13: for each concrete operation kind (Create, Rename, Delete) and every
\* resource state s, applying the operation and then inverting it returns
\* the part of the resource the operation touches to exactly its value in
\* s, including when Create targets a name that already exists and when
\* Rename targets a new name that already exists; Rename's inverse is the
\* rename in the opposite direction.
\* ------------------------------------------------------------------------
Concrete(cmd) == cmd.kind \in {"Create", "Rename", "Delete"}

\* The file names the operation is about.
Touched(cmd) == IF cmd.kind = "Rename" THEN {cmd.name, cmd.new} ELSE {cmd.name}

\* The first call ran cmd on the store s = files0 and the second undid it.
AppliedThenInverted(cmd) ==
    /\ Len(log) = 2
    /\ log[1].call = "run" /\ log[1].ok /\ log[1].arg = cmd
    /\ log[2].call = "undo_last" /\ log[2].ok
    /\ log[2].calls = <<Invoked(cmd, "undo")>>

C13_InvertRestoresTouchedPart ==
    \A cmd \in Commands :
        Concrete(cmd)
          => /\ AppliedThenInverted(cmd)
                  => \A n \in Touched(cmd) : files[n] = files0[n]
             /\ cmd.kind = "Rename"
                  => undo_call(cmd) = FsCall("rename_file", cmd.new, cmd.name)

\* ------------------------------------------------------------------------
\* C14: if undo fails during undo_last, the popped operation is in neither
\* stack afterwards: undo_stack is the previous undo_stack without its last
\* element, redo_stack is unchanged, and the failure is reported to the
\* caller as a failed undo.
\* ------------------------------------------------------------------------
C14_FailedUndoLosesOperation ==
    [][(Called("undo_last") /\ undo_stack # << >> /\ ~Last(log').ok)
         => /\ undo_stack' = Front(undo_stack)
            /\ redo_stack' = redo_stack
            /\ Last(log').calls = <<Invoked(Last(undo_stack), "undo")>>
            /\ outcome' = Raised(undo(Last(undo_stack), files).reason)
            /\ outcome'.info # ""]_vars

\* An undo_last whose undo raised, with an older command left in the
\* history.
C14_Witness ==
    /\ Len(log) >= 3
    /\ Last(log).call = "undo_last" /\ ~Last(log).ok
    /\ Last(log).calls = <<Invoked(RaiseOnUndo, "undo")>>
    /\ outcome = Raised(RaiseOnUndo.name)
    /\ Len(history) = 1
    /\ history[1] # RaiseOnUndo

\* ------------------------------------------------------------------------
\* C15 as stated: every failure of execute or undo of a command during run,
\* undo_last or redo is returned to the immediate caller as an explicit
\* result value carrying the reason; the invoker neither raises a fault to
\* the caller nor swallows the failure.
\* ------------------------------------------------------------------------
\* The step is a call of the invoker in which a command method failed.
CommandFailed ==
    /\ Called("run") \/ Called("undo_last") \/ Called("redo")
    /\ Last(log').calls # << >>
    /\ ~Last(log').ok

\* The reason the failing command method gave.
FailureReason ==
    IF Last(log').call = "run"
    THEN execute(Last(log').arg, files).reason
    ELSE undo(Last(undo_stack), files).reason

RECURSIVE Flatten(_)
Flatten(ss) == IF ss = << >> THEN << >> ELSE Head(ss) \o Flatten(Tail(ss))

\* Every command method the invoker has called, in order.
Invocations == Flatten([i \in 1..Len(log) |-> log[i].calls])

\* The methods the invoker has called on cmd, in order.
MethodsCalledOn(cmd) ==
    LET OnCmd(x) == x.op = cmd
        on == SelectSeq(Invocations, OnCmd) IN
    [i \in 1..Len(on) |-> on[i].method]

Alternates(ms) ==
    \A i \in 1..Len(ms) : ms[i] = IF i % 2 = 1 THEN "execute" ELSE "undo"

\* How many times cmd was submitted to run.
Submissions(cmd) ==
    Cardinality({i \in 1..Len(log) : log[i].call = "run" /\ log[i].arg = cmd})

C16_CallsAlternateAlways ==
    \A cmd \in Commands : Alternates(MethodsCalledOn(cmd))

\* C16 amended: for every operation instance submitted to run at most once
\* and every sequence of run, undo_last and redo calls, the calls the
\* invoker makes on that instance alternate strictly, starting with
\* execute; the invoker does not enforce this for an instance submitted to
\* run more than once.
C16_CallsAlternateWhenSubmittedOnce ==
    \A cmd \in Commands :
        Submissions(cmd) <= 1 => Alternates(MethodsCalledOn(cmd))

\* A command run once and undone, followed by further undo_last and redo
\* calls that leave it alone.
C16_Witness ==
    /\ Len(log) = 4
    /\ log[3].call = "undo_last" /\ log[4].call = "redo"
    /\ \E cmd \in Commands :
          /\ Submissions(cmd) = 1
          /\ MethodsCalledOn(cmd) = <<"execute", "undo">>
          /\ log[2].calls = <<Invoked(cmd, "undo")>>

\* ------------------------------------------------------------------------
\* C17 as stated: each single call of run, undo_last or redo invokes at
\* most one execute or undo, on at most one operation; an operation whose
\* execute or undo failed is never called again by the invoker in any later
\* run, undo_last or redo.
\* ------------------------------------------------------------------------
\* The i-th call of the invoker called a method of cmd, and it failed.
FailedOn(i, cmd) ==
    /\ ~log[i].ok
    /\ \E k \in 1..Len(log[i].calls) : log[i].calls[k].op = cmd

CalledOn(j, cmd) == \E k \in 1..Len(log[j].calls) : log[j].calls[k].op = cmd

NeverCalledAfterFailure(cmd) ==
    \A i \in 1..Len(log) : \A j \in (i + 1)..Len(log) :
        ~(FailedOn(i, cmd) /\ CalledOn(j, cmd))

AtMostOneInvocationPerCall == \A i \in 1..Len(log) : Len(log[i].calls) <= 1

C17_FailedOperationNeverCalledAgain ==
    /\ AtMostOneInvocationPerCall
    /\ \A cmd \in Commands : NeverCalledAfterFailure(cmd)

\* C17 amended: each single call of run, undo_last or redo invokes at most
\* one execute or undo, on at most one operation, and the invoker retries
\* nothing on its own: execute is called on an instance exactly once per
\* submission to run and undo at most once per run that returned, so an
\* operation submitted once is never called again after its execute or
\* undo failed.  An operation the caller submits to run again is called
\* again, failed or not.
Count(ms, m) == Cardinality({i \in 1..Len(ms) : ms[i] = m})

ReturnedRuns(cmd) ==
    Cardinality({i \in 1..Len(log) :
                    log[i].call = "run" /\ log[i].arg = cmd /\ log[i].ok})

C17_NothingIsRetriedByTheInvoker ==
    /\ AtMostOneInvocationPerCall
    /\ \A cmd \in Commands :
          LET ms == MethodsCalledOn(cmd) IN
          /\ Count(ms, "execute") = Submissions(cmd)
          /\ Count(ms, "undo") <= ReturnedRuns(cmd)
          /\ Submissions(cmd) <= 1 => NeverCalledAfterFailure(cmd)

\* An operation run once whose undo failed, and a later undo_last that
\* called the undo of an older operation instead.
C17_Witness ==
    /\ Len(log) = 4
    /\ Submissions(RaiseOnUndo) = 1
    /\ FailedOn(3, RaiseOnUndo)
    /\ log[4].call = "undo_last"
    /\ Len(log[4].calls) = 1
    /\ ~CalledOn(4, RaiseOnUndo)

\* ------------------------------------------------------------------------
\* C19: undoing a Delete recreates the deleted file with the content it had
\* when it was deleted: run(Delete(f)); undo_last() leaves file f with
\* unchanged content.
\* ------------------------------------------------------------------------
C19_UndoOfDeleteRestoresContent ==
    \A f \in Names :
        (AppliedThenInverted(DeleteFileCommand(f)) /\ files0[f] # Absent)
          => files[f] = files0[f]

\* ------------------------------------------------------------------------
\* C20 as stated: in every reachable state the length of _history equals
\* the number of run calls whose command.execute() completed minus the
\* number of undo_last calls made on a non-empty history; it is never
\* negative, and a command whose undo was called by undo_last is no longer
\* in _history.
\* ------------------------------------------------------------------------
CompletedRuns ==
    Cardinality({i \in 1..Len(log) : log[i].call = "run" /\ log[i].ok})

UndosOnNonEmpty ==
    Cardinality({i \in 1..Len(log) :
                    log[i].call = "undo_last" /\ log[i].calls # << >>})

InHistory(cmd) == \E i \in 1..Len(history) : history[i] = cmd

LengthIsRunsMinusUndos ==
    /\ UndosOnNonEmpty <= CompletedRuns
    /\ Len(history) + UndosOnNonEmpty = CompletedRuns

\* The last call was an undo_last that called the undo of cmd.
JustUndone(cmd) ==
    /\ log # << >>
    /\ Last(log).call = "undo_last"
    /\ Last(log).calls = <<Invoked(cmd, "undo")>>

C20_UndoneCommandLeavesHistory ==
    /\ LengthIsRunsMinusUndos
    /\ \A cmd \in Commands : JustUndone(cmd) => ~InHistory(cmd)

\* C20 amended: in every reachable state the length of _history equals the
\* number of run calls whose command.execute() completed minus the number
\* of undo_last calls made on a non-empty history; it is never negative,
\* and a command whose undo was called by undo_last is no longer in
\* _history when it had been submitted to run once; a command run more
\* than once stays in _history through its other entries.
C20_UndoneEntryLeavesHistory ==
    /\ LengthIsRunsMinusUndos
    /\ \A cmd \in Commands :
          (JustUndone(cmd) /\ Submissions(cmd) <= 1) => ~InHistory(cmd)

\* Two commands run and the newer one undone.
C20_Witness ==
    /\ Len(log) = 3
    /\ CompletedRuns = 2
    /\ UndosOnNonEmpty = 1
    /\ history = <<log[1].arg>>
    /\ JustUndone(log[2].arg)
    /\ log[1].arg # log[2].arg

\* ------------------------------------------------------------------------
\* While one of the other programs runs there is no invoker: its variables
\* stay at the values of a fresh invoker on an empty store that makes no
\* call.
\* ------------------------------------------------------------------------
InvokerIdle ==
    /\ history = << >>
    /\ files = NoFiles
    /\ files0 = NoFiles
    /\ outcome = NotCalled
    /\ log = << >>
    /\ limit = 0

\* ------------------------------------------------------------------------
\* state/exemplo_state.py: the MusicPlayer and its three state classes.
\* ------------------------------------------------------------------------
MaxPlayerCalls == 5

StoppedState == "Stopped"

PlayingState == "Playing"

PausedState == "Paused"

PlayerStates == {StoppedState, PlayingState, PausedState}

\* State.play, State.pause and State.stop of the three classes: the state the
\* player holds after the call.  A method that only prints leaves the state.
play(state) ==
    CASE state = PlayingState -> PlayingState
      [] state = PausedState -> PlayingState
      [] state = StoppedState -> PlayingState

pausePausesWhateverTheState(state) == PausedState

pause(state) ==
    CASE state = PlayingState -> PausedState
      [] state = PausedState -> PausedState
      [] state = StoppedState -> StoppedState

stop(state) ==
    CASE state = PlayingState -> StoppedState
      [] state = PausedState -> StoppedState
      [] state = StoppedState -> StoppedState

\* player.state is MusicPlayer._state; player.calls is the record of the
\* methods called on the player, in order.
PlayerInit ==
    /\ player = [state |-> StoppedState, calls |-> << >>]
    /\ InvokerIdle
    /\ editor = Idle
    /\ proxies = Idle
    /\ config = Idle
    /\ factory = Idle
    /\ station = Idle
    /\ chat = Idle

PlayerFrame == UNCHANGED <<invoker, editor, proxies, config, factory, station, chat>>

Play ==
    /\ Len(player.calls) < MaxPlayerCalls
    /\ player' = [state |-> play(player.state), calls |-> Append(player.calls, "play")]
    /\ PlayerFrame

Pause ==
    /\ Len(player.calls) < MaxPlayerCalls
    /\ player' = [state |-> pause(player.state), calls |-> Append(player.calls, "pause")]
    /\ PlayerFrame

Stop ==
    /\ Len(player.calls) < MaxPlayerCalls
    /\ player' = [state |-> stop(player.state), calls |-> Append(player.calls, "stop")]
    /\ PlayerFrame

PlayerNext ==
    \/ Play
    \/ Pause
    \/ Stop

PlayerSpec == PlayerInit /\ [][PlayerNext]_vars

\* The step is one call `method` of the player.
PlayerCalled(method) ==
    /\ Len(player'.calls) = Len(player.calls) + 1
    /\ Last(player'.calls) = method

PlayerStep ==
    /\ PlayerCalled("play") => player'.state = "Playing"
    /\ PlayerCalled("stop") => player'.state = "Stopped"
    /\ PlayerCalled("pause") =>
           player'.state = IF player.state = "Playing" THEN "Paused" ELSE player.state
    /\ ~(player.state = "Stopped" /\ player'.state = "Paused")

\* C21: the player starts in Stopped and is always in one of Stopped, Playing
\* and Paused; play leads to Playing and stop to Stopped from every state;
\* pause leads from Playing to Paused and leaves Stopped and Paused as they
\* are, so no step leads from Stopped to Paused.
C21_PlayerTransitions ==
    /\ player.state = "Stopped"
    /\ [](player.state \in {"Stopped", "Playing", "Paused"})
    /\ [][PlayerStep]_vars

\* pause was called in all three states: in Stopped, then in Playing, then
\* in Paused.
C21_Witness ==
    /\ player.calls = <<"pause", "play", "pause", "pause">>
    /\ player.state = "Paused"

\* ------------------------------------------------------------------------
\* mememnto/exemplo_memento.py: the TextEditor, its mementos and the History.
\* A text is a sequence of characters; += on a str is concatenation.
\* ------------------------------------------------------------------------
MaxEditorCalls == 6

Texts == {<<"a">>, <<"b">>}

EditorMemento(content) == [content |-> content]

\* TextEditor.type, save and restore: the content after type and restore,
\* the memento save returns.
type(content, new_text) == content \o new_text

save(content) == EditorMemento(content)

restore(memento) == memento.content

\* History.push and History.pop.  pop gives the memento it returns (none when
\* it raises) and the list it leaves.
push(mementos, memento) == Append(mementos, memento)

popOldest(mementos) ==
    IF mementos = << >>
    THEN [raised |-> TRUE, memento |-> << >>, history |-> mementos]
    ELSE [raised |-> FALSE, memento |-> <<Head(mementos)>>, history |-> Tail(mementos)]

pop(mementos) ==
    IF mementos = << >>
    THEN [raised |-> TRUE, memento |-> << >>, history |-> mementos]
    ELSE [raised |-> FALSE, memento |-> <<Last(mementos)>>, history |-> Front(mementos)]

EmptyHistoryError == "IndexError: Nenhum estado salvo no histórico."

\* editor.content is TextEditor._content and editor.history is
\* History._history.  editor.result is how the last call ended and
\* editor.popped the memento the last pop returned; editor.trace records the
\* calls made, each with the content of the editor after it.
EditorCall(call, content, ok) == [call |-> call, content |-> content, ok |-> ok]

EditorInit ==
    /\ editor = [content |-> << >>, history |-> << >>, result |-> NotCalled,
                 popped |-> << >>, trace |-> << >>]
    /\ InvokerIdle
    /\ player = Idle
    /\ proxies = Idle
    /\ config = Idle
    /\ factory = Idle
    /\ station = Idle
    /\ chat = Idle

EditorFrame == UNCHANGED <<invoker, player, proxies, config, factory, station, chat>>

\* editor.type(new_text)
Type(new_text) ==
    LET content == type(editor.content, new_text) IN
    /\ Len(editor.trace) < MaxEditorCalls
    /\ editor' = [content |-> content, history |-> editor.history,
                  result |-> Returned, popped |-> << >>,
                  trace |-> Append(editor.trace, EditorCall("type", content, TRUE))]
    /\ EditorFrame

\* history.push(editor.save())
SavePush ==
    /\ Len(editor.trace) < MaxEditorCalls
    /\ editor' = [content |-> editor.content,
                  history |-> push(editor.history, save(editor.content)),
                  result |-> Returned, popped |-> << >>,
                  trace |-> Append(editor.trace, EditorCall("save", editor.content, TRUE))]
    /\ EditorFrame

\* editor.restore(history.pop()): when pop raises, restore is not called.
PopRestoreNoOpOnEmpty ==
    LET r == pop(editor.history)
        content == IF r.raised THEN editor.content ELSE restore(r.memento[1]) IN
    /\ Len(editor.trace) < MaxEditorCalls
    /\ editor' = [content |-> content, history |-> r.history,
                  result |-> Returned,
                  popped |-> r.memento,
                  trace |-> Append(editor.trace, EditorCall("pop", content, TRUE))]
    /\ EditorFrame

PopRestore ==
    LET r == pop(editor.history)
        content == IF r.raised THEN editor.content ELSE restore(r.memento[1]) IN
    /\ Len(editor.trace) < MaxEditorCalls
    /\ editor' = [content |-> content, history |-> r.history,
                  result |-> IF r.raised THEN Raised(EmptyHistoryError) ELSE Returned,
                  popped |-> r.memento,
                  trace |-> Append(editor.trace, EditorCall("pop", content, ~r.raised))]
    /\ EditorFrame

EditorNext ==
    \/ \E new_text \in Texts : Type(new_text)
    \/ SavePush
    \/ PopRestore

EditorSpec == EditorInit /\ [][EditorNext]_vars

\* The saves among the first n calls whose memento no later pop among them
\* has returned, oldest first, when pop returns the mementos in the reverse
\* order of push.
RECURSIVE OpenSaves(_)
OpenSaves(n) ==
    IF n = 0 THEN << >>
    ELSE LET e == editor.trace[n]
             open == OpenSaves(n - 1) IN
         CASE e.call = "save" -> Append(open, n)
           [] e.call = "pop" /\ e.ok /\ open # << >> -> Front(open)
           [] OTHER -> open

\* C22: pop returns the mementos in the reverse order of push, a restore
\* sets the content of the editor to the content it had when the memento
\* restored was saved, and the content of a memento kept in the history is
\* the content of the editor at its save, whatever was typed since.
C22_RestoreBringsBackSavedContent ==
    /\ LET open == OpenSaves(Len(editor.trace)) IN
           /\ Len(editor.history) = Len(open)
           /\ \A k \in 1..Len(open) :
                  editor.history[k].content = editor.trace[open[k]].content
    /\ \A j \in 1..Len(editor.trace) :
           (editor.trace[j].call = "pop" /\ editor.trace[j].ok) =>
               /\ OpenSaves(j - 1) # << >>
               /\ editor.trace[j].content = editor.trace[Last(OpenSaves(j - 1))].content

\* save of "", type, save of "a", type, then two restores: the first brings
\* back "a", the second "".
C22_Witness ==
    /\ Len(editor.trace) = 6
    /\ [i \in 1..6 |-> editor.trace[i].call]
           = <<"save", "type", "save", "type", "pop", "pop">>
    /\ editor.trace[5].content = <<"a">>
    /\ editor.content = << >>

\* The step is one call `call` of the editor and its history.
EditorCalled(call) ==
    /\ Len(editor'.trace) = Len(editor.trace) + 1
    /\ Last(editor'.trace).call = call

\* C23: pop on an empty history raises IndexError, returns no memento and
\* leaves the history empty and the editor as it was; the call does not
\* return normally.
C23_PopOnEmptyRaises ==
    [][(EditorCalled("pop") /\ editor.history = << >>) =>
           /\ editor'.result.kind = "raised"
           /\ editor'.result.info = "IndexError: Nenhum estado salvo no histórico."
           /\ editor'.popped = << >>
           /\ editor'.history = << >>
           /\ editor'.content = editor.content]_vars

\* A pop that raised, after a save and the pop that took its memento back.
C23_Witness ==
    /\ Len(editor.trace) >= 3
    /\ editor.trace[Len(editor.trace)].call = "pop"
    /\ editor.trace[Len(editor.trace) - 1].call = "pop"
    /\ editor.trace[Len(editor.trace) - 2].call = "save"
    /\ editor.result = Raised(EmptyHistoryError)
    /\ editor.history = << >>

\* ------------------------------------------------------------------------
\* proxy/exemplo_proxy.py: SensitiveDataProxy objects, each with its own
\* RealSensitiveDataService and cache.
\* ------------------------------------------------------------------------
NumProxies == 2

MaxProxyCalls == 4

ProxyIds == 1..NumProxies

Users == {"admin", "guest"}

Passwords == {"1234", "1111"}

None == "None"

SensitiveData == "DADOS SIGILOSOS: Relatórios confidenciais."

AccessDenied == "[Proxy] Acesso negado: credenciais inválidas."

\* SensitiveDataProxy._is_authenticated
_is_authenticatedWithEither(p) == p.user = "admin" \/ p.password = "1234"

_is_authenticated(p) == p.user = "admin" /\ p.password = "1234"

\* SensitiveDataProxy.get_data on the proxy p: the proxy after the call.
\* real_calls counts the calls of RealSensitiveDataService.get_data and
\* returns lists what get_data returned, call by call.
get_data(p) ==
    IF ~_is_authenticated(p)
    THEN [p EXCEPT !.returns = Append(@, AccessDenied)]
    ELSE IF p._cached_data = None
         THEN [p EXCEPT !._cached_data = SensitiveData,
                        !.real_calls = @ + 1,
                        !.returns = Append(@, SensitiveData)]
         ELSE [p EXCEPT !.returns = Append(@, p._cached_data)]

SensitiveDataProxy(user, password) ==
    [user |-> user, password |-> password, _cached_data |-> None,
     real_calls |-> 0, returns |-> << >>]

ProxyInit ==
    /\ proxies \in [ProxyIds -> {SensitiveDataProxy(user, password) :
                                     user \in Users, password \in Passwords}]
    /\ InvokerIdle
    /\ player = Idle
    /\ editor = Idle
    /\ config = Idle
    /\ factory = Idle
    /\ station = Idle
    /\ chat = Idle

ProxyFrame == UNCHANGED <<invoker, player, editor, config, factory, station, chat>>

RECURSIVE ProxyCalls(_)
ProxyCalls(n) == IF n = 0 THEN 0 ELSE Len(proxies[n].returns) + ProxyCalls(n - 1)

GetData(i) ==
    /\ ProxyCalls(NumProxies) < MaxProxyCalls
    /\ proxies' = [proxies EXCEPT ![i] = get_data(proxies[i])]
    /\ ProxyFrame

ProxyNext == \E i \in ProxyIds : GetData(i)

ProxySpec == ProxyInit /\ [][ProxyNext]_vars

\* C24: a proxy whose credentials are not (admin, 1234) never calls the real
\* service, never fills its cache and never returns the sensitive data; a
\* proxy with these credentials calls the real service at most once, and
\* all its get_data calls return the same data, that of the real service.
C24_ProxyGuardsAndCaches ==
    \A i \in ProxyIds :
        LET p == proxies[i] IN
        IF p.user = "admin" /\ p.password = "1234"
        THEN /\ p.real_calls <= 1
             /\ p.real_calls = 1 <=> p.returns # << >>
             /\ \A k \in 1..Len(p.returns) :
                    p.returns[k] = "DADOS SIGILOSOS: Relatórios confidenciais."
        ELSE /\ p.real_calls = 0
             /\ p._cached_data = "None"
             /\ \A k \in 1..Len(p.returns) :
                    p.returns[k] # "DADOS SIGILOSOS: Relatórios confidenciais."

\* One proxy with the user name right and the password wrong, one with both
\* right, each called twice.
C24_Witness ==
    /\ proxies[1].user = "admin"
    /\ proxies[1].password = "1111"
    /\ Len(proxies[1].returns) = 2
    /\ proxies[2].user = "admin"
    /\ proxies[2].password = "1234"
    /\ Len(proxies[2].returns) = 2
    /\ proxies[2].real_calls = 1

\* ------------------------------------------------------------------------
\* sigleton/configuration_system.py: the class ConfiguracaoSistema with its
\* class variable _instancia, and the objects it creates.
\* ------------------------------------------------------------------------
MaxConfigCalls == 5

Valores == {"Configuração inicial", "Modo produção"}

ConfiguracaoPadrao == "Configuração padrão"

\* An object without the attribute valor, as object.__new__ returns it.
NewObject == [has_valor |-> FALSE, valor |-> None]

\* ConfiguracaoSistema.__new__ on the class state c: the class state after
\* the call and the object returned.  Objects are numbered as created.
__new__(c) ==
    IF c._instancia = None
    THEN [c |-> [c EXCEPT !._instancia = <<Len(c.objects) + 1>>,
                          !.objects = Append(@, NewObject)],
          self |-> Len(c.objects) + 1]
    ELSE [c |-> c, self |-> c._instancia[1]]

\* ConfiguracaoSistema.__init__ on the object o
__init__AlwaysSetsDefault(o) == [has_valor |-> TRUE, valor |-> ConfiguracaoPadrao]

__init__(o) ==
    IF ~o.has_valor THEN [has_valor |-> TRUE, valor |-> ConfiguracaoPadrao] ELSE o

atualizar_configuracao(o, novo_valor) == [has_valor |-> TRUE, valor |-> novo_valor]

obter_configuracao(o) == o.valor

\* config._instancia is the class variable (None, or the one-element tuple of
\* the object it refers to) and config.objects the objects created.
\* config.refs are the references the constructions returned, in order;
\* config.got is what the last obter_configuracao returned; config.trace
\* records the calls made, and config.last_set the value of the last
\* atualizar_configuracao.
ConfigInit ==
    /\ config = [_instancia |-> None, objects |-> << >>, refs |-> << >>,
                 got |-> None, trace |-> << >>, last_set |-> None]
    /\ InvokerIdle
    /\ player = Idle
    /\ editor = Idle
    /\ proxies = Idle
    /\ factory = Idle
    /\ station = Idle
    /\ chat = Idle

ConfigFrame == UNCHANGED <<invoker, player, editor, proxies, factory, station, chat>>

\* ConfiguracaoSistema(): __new__, then __init__ on the object it returned.
Construct ==
    LET r == __new__(config) IN
    /\ Len(config.trace) < MaxConfigCalls
    /\ config' = [r.c EXCEPT !.objects[r.self] = __init__(@),
                             !.refs = Append(@, r.self),
                             !.trace = Append(@, "ConfiguracaoSistema")]
    /\ ConfigFrame

\* ref.atualizar_configuracao(novo_valor), ref one of the references held
Atualizar(ref, novo_valor) ==
    /\ Len(config.trace) < MaxConfigCalls
    /\ ref \in 1..Len(config.refs)
    /\ config' = [config EXCEPT
                      !.objects[config.refs[ref]] = atualizar_configuracao(@, novo_valor),
                      !.trace = Append(@, "atualizar_configuracao"),
                      !.last_set = novo_valor]
    /\ ConfigFrame

\* ref.obter_configuracao()
Obter(ref) ==
    /\ Len(config.trace) < MaxConfigCalls
    /\ ref \in 1..Len(config.refs)
    /\ config' = [config EXCEPT
                      !.got = obter_configuracao(config.objects[config.refs[ref]]),
                      !.trace = Append(@, "obter_configuracao")]
    /\ ConfigFrame

ConfigNext ==
    \/ Construct
    \/ \E ref \in 1..MaxConfigCalls, novo_valor \in Valores : Atualizar(ref, novo_valor)
    \/ \E ref \in 1..MaxConfigCalls : Obter(ref)

ConfigSpec == ConfigInit /\ [][ConfigNext]_vars

\* The value the configuration has: that of the last
\* atualizar_configuracao, the default before the first.
ValorEsperado ==
    IF config.last_set = "None" THEN "Configuração padrão" ELSE config.last_set

OneInstance ==
    /\ Len(config.objects) <= 1
    /\ \A i, j \in 1..Len(config.refs) : config.refs[i] = config.refs[j]
    /\ \A i \in 1..Len(config.refs) : config.objects[config.refs[i]].valor = ValorEsperado

\* C25: every construction returns the same instance, and a construction
\* after atualizar_configuracao(v) does not reset the configuration:
\* obter_configuracao returns v through every reference.
C25_OneInstanceKeepsItsValue ==
    /\ []OneInstance
    /\ [][(Len(config'.trace) = Len(config.trace) + 1
               /\ Last(config'.trace) = "obter_configuracao") =>
              config'.got = ValorEsperado]_vars

\* Two constructions, an update, a third construction, then a read.
C25_Witness ==
    /\ config.trace = <<"ConfiguracaoSistema", "ConfiguracaoSistema",
                        "atualizar_configuracao", "ConfiguracaoSistema",
                        "obter_configuracao">>
    /\ config.last_set = "Modo produção"
    /\ config.got = "Modo produção"

\* ------------------------------------------------------------------------
\* flyweight/exemplo_flyweight.py: the SoldierFactory class and the
\* SoldierType objects it creates.  A str is a sequence of characters.
\* ------------------------------------------------------------------------
MaxFactoryCalls == 3

Strings == {<<"a">>, <<"a", "_", "a">>}

SoldierType(name, weapon, texture) == [name |-> name, weapon |-> weapon, texture |-> texture]

\* f"{name}_{weapon}_{texture}"
Key(name, weapon, texture) == name \o <<"_">> \o weapon \o <<"_">> \o texture

EmptyDict == [key \in {} |-> 0]

\* SoldierFactory.get_soldier_type on the class state f: the class state
\* after the call and the object returned.  Objects are numbered as created;
\* _soldier_types maps a key to the number of its object.
get_soldier_type(f, name, weapon, texture) ==
    LET key == Key(name, weapon, texture) IN
    IF key \notin DOMAIN f._soldier_types
    THEN [f |-> [_soldier_types |->
                     [k \in DOMAIN f._soldier_types \cup {key} |->
                          IF k = key THEN Len(f.objects) + 1 ELSE f._soldier_types[k]],
                 objects |-> Append(f.objects, SoldierType(name, weapon, texture))],
          returned |-> Len(f.objects) + 1]
    ELSE [f |-> f, returned |-> f._soldier_types[key]]

\* factory.class is the class state: _soldier_types and the objects created.
\* factory.calls records the calls made: the arguments and the object
\* returned.
FactoryInit ==
    /\ factory = [class |-> [_soldier_types |-> EmptyDict, objects |-> << >>],
                  calls |-> << >>]
    /\ InvokerIdle
    /\ player = Idle
    /\ editor = Idle
    /\ proxies = Idle
    /\ config = Idle
    /\ station = Idle
    /\ chat = Idle

FactoryFrame == UNCHANGED <<invoker, player, editor, proxies, config, station, chat>>

GetSoldierType(name, weapon, texture) ==
    LET r == get_soldier_type(factory.class, name, weapon, texture) IN
    /\ Len(factory.calls) < MaxFactoryCalls
    /\ factory' = [class |-> r.f,
                   calls |-> Append(factory.calls,
                                    [name |-> name, weapon |-> weapon,
                                     texture |-> texture, returned |-> r.returned])]
    /\ FactoryFrame

FactoryNext == \E name, weapon, texture \in Strings : GetSoldierType(name, weapon, texture)

FactorySpec == FactoryInit /\ [][FactoryNext]_vars

\* C26: two calls return the same SoldierType object exactly when their
\* (name, weapon, texture) are equal, and the object a call returns has the
\* name, weapon and texture of the call, underscores in them or not.
C26_SameObjectIffSameTriple ==
    /\ \A i, j \in 1..Len(factory.calls) :
           LET a == factory.calls[i]
               b == factory.calls[j] IN
           a.returned = b.returned <=>
               (a.name = b.name /\ a.weapon = b.weapon /\ a.texture = b.texture)
    /\ \A i \in 1..Len(factory.calls) :
           LET a == factory.calls[i] IN
           factory.class.objects[a.returned] = SoldierType(a.name, a.weapon, a.texture)

\* ------------------------------------------------------------------------
\* observer/exemplo_observer.py: the WeatherStation and its observers.
\* ------------------------------------------------------------------------
MaxStationCalls == 5

Observers == {"display", "logger"}

Temperatures == {"25.3", "27.8"}

\* list.remove(x): the list without its first x; ValueError when x is not
\* in the list, which is left as it was.
IndexOf(list, x) == CHOOSE i \in 1..Len(list) :
                        list[i] = x /\ \A j \in 1..(i - 1) : list[j] # x

Contains(list, x) == \E i \in 1..Len(list) : list[i] = x

remove(list, x) ==
    IF Contains(list, x)
    THEN [raised |-> FALSE,
          list |-> SubSeq(list, 1, IndexOf(list, x) - 1)
                       \o SubSeq(list, IndexOf(list, x) + 1, Len(list))]
    ELSE [raised |-> TRUE, list |-> list]

NotInList == "ValueError: list.remove(x): x not in list"

\* WeatherStation.notify: the calls of update it makes, in order.
notify(observers, temperature) ==
    [i \in 1..Len(observers) |-> [observer |-> observers[i], temperature |-> temperature]]

attachAtFront(observers, observer) == <<observer>> \o observers

attach(observers, observer) == Append(observers, observer)

detach(observers, observer) == remove(observers, observer)

\* station._observers and station._temperature are the fields of the
\* WeatherStation.  station.updates are the calls of update made by the
\* last call of the station, station.result is how that call ended, and
\* station.trace records the calls made on the station.
StationCall(call, arg, ok) == [call |-> call, arg |-> arg, ok |-> ok]

StationInit ==
    /\ station = [_observers |-> << >>, _temperature |-> "0.0", updates |-> << >>,
                  result |-> NotCalled, trace |-> << >>]
    /\ InvokerIdle
    /\ player = Idle
    /\ editor = Idle
    /\ proxies = Idle
    /\ config = Idle
    /\ factory = Idle
    /\ chat = Idle

StationFrame == UNCHANGED <<invoker, player, editor, proxies, config, factory, chat>>

Attach(observer) ==
    /\ Len(station.trace) < MaxStationCalls
    /\ station' = [station EXCEPT
                       !._observers = attach(@, observer),
                       !.updates = << >>,
                       !.result = Returned,
                       !.trace = Append(@, StationCall("attach", observer, TRUE))]
    /\ StationFrame

Detach(observer) ==
    LET r == detach(station._observers, observer) IN
    /\ Len(station.trace) < MaxStationCalls
    /\ station' = [station EXCEPT
                       !._observers = r.list,
                       !.updates = << >>,
                       !.result = IF r.raised THEN Raised(NotInList) ELSE Returned,
                       !.trace = Append(@, StationCall("detach", observer, ~r.raised))]
    /\ StationFrame

\* set_temperature: the assignment, then notify.
SetTemperature(new_temperature) ==
    /\ Len(station.trace) < MaxStationCalls
    /\ station' = [station EXCEPT
                       !._temperature = new_temperature,
                       !.updates = notify(station._observers, new_temperature),
                       !.result = Returned,
                       !.trace = Append(@, StationCall("set_temperature",
                                                       new_temperature, TRUE))]
    /\ StationFrame

StationNext ==
    \/ \E observer \in Observers : Attach(observer)
    \/ \E observer \in Observers : Detach(observer)
    \/ \E new_temperature \in Temperatures : SetTemperature(new_temperature)

StationSpec == StationInit /\ [][StationNext]_vars

\* The observers attached, in the order of the attach calls.
IsAttach(e) == e.call = "attach"

Attached ==
    LET calls == SelectSeq(station.trace, IsAttach) IN
    [i \in 1..Len(calls) |-> calls[i].arg]

\* The attachments of the observer o now: its attach calls less its detach
\* calls that did not fail.
Attachments(o) ==
    Cardinality({i \in 1..Len(station.trace) :
                     station.trace[i].call = "attach" /\ station.trace[i].arg = o})
    - Cardinality({i \in 1..Len(station.trace) :
                       /\ station.trace[i].call = "detach"
                       /\ station.trace[i].arg = o
                       /\ station.trace[i].ok})

Updated == [i \in 1..Len(station.updates) |-> station.updates[i].observer]

NotifiesAttachments ==
    (station.trace # << >> /\ Last(station.trace).call = "set_temperature") =>
        /\ \A o \in Observers : Count(Updated, o) = Attachments(o)
        /\ IsSubseq(Updated, Attached)
        /\ \A i \in 1..Len(station.updates) :
               station.updates[i].temperature = Last(station.trace).arg

FailedDetachChangesNothing ==
    \A o \in Observers :
        (/\ Len(station'.trace) = Len(station.trace) + 1
         /\ Last(station'.trace).call = "detach"
         /\ Last(station'.trace).arg = o
         /\ ~Contains(station._observers, o)) =>
            /\ station'.result.kind = "raised"
            /\ station'._observers = station._observers

\* C27: set_temperature(t) calls update(t) once per attachment now in the
\* list, in the order of the attach calls, and on no observer that has no
\* attachment left; detach of an observer not in the list fails with an
\* error and leaves the list as it was.
C27_NotifiesAttachmentsInOrder ==
    /\ []NotifiesAttachments
    /\ [][FailedDetachChangesNothing]_vars

\* display attached twice around logger and detached once: logger is updated
\* before display.
C27_Witness ==
    /\ Len(station.trace) = 5
    /\ [i \in 1..5 |-> station.trace[i].call]
           = <<"attach", "attach", "attach", "detach", "set_temperature">>
    /\ [i \in 1..4 |-> station.trace[i].arg] = <<"display", "logger", "display", "display">>
    /\ Updated = <<"logger", "display">>

\* ------------------------------------------------------------------------
\* mediator/exemplo_mediator.py: the ChatRoom and its users.  User defines
\* no __eq__: u != user compares the objects, which are told apart here by
\* their names.
\* ------------------------------------------------------------------------
MaxChatCalls == 4

ChatUsers == {"Maxwell", "Calebe", "Ana"}

Messages == {"Olá, pessoal!"}

register_user(users, user) == Append(users, user)

\* ChatRoom.send_message: the calls of receive it makes, in order.
RECURSIVE send_message(_, _, _)
send_message(users, message, user) ==
    IF users = << >> THEN << >>
    ELSE LET u == Head(users)
             rest == send_message(Tail(users), message, user) IN
         IF u # user
         THEN <<[to |-> u, message |-> message, sender |-> user]>> \o rest
         ELSE rest

\* chat._users is the list of the ChatRoom.  chat.received are the calls of
\* receive made by the last call of the room, and chat.trace records the
\* calls made on the room.
ChatCall(call, user, message) == [call |-> call, user |-> user, message |-> message]

ChatInit ==
    /\ chat = [_users |-> << >>, received |-> << >>, trace |-> << >>]
    /\ InvokerIdle
    /\ player = Idle
    /\ editor = Idle
    /\ proxies = Idle
    /\ config = Idle
    /\ factory = Idle
    /\ station = Idle

ChatFrame == UNCHANGED <<invoker, player, editor, proxies, config, factory, station>>

RegisterUser(user) ==
    /\ Len(chat.trace) < MaxChatCalls
    /\ chat' = [_users |-> register_user(chat._users, user),
                received |-> << >>,
                trace |-> Append(chat.trace, ChatCall("register_user", user, ""))]
    /\ ChatFrame

SendMessage(message, user) ==
    /\ Len(chat.trace) < MaxChatCalls
    /\ chat' = [_users |-> chat._users,
                received |-> send_message(chat._users, message, user),
                trace |-> Append(chat.trace, ChatCall("send_message", user, message))]
    /\ ChatFrame

ChatNext ==
    \/ \E user \in ChatUsers : RegisterUser(user)
    \/ \E message \in Messages, user \in ChatUsers : SendMessage(message, user)

ChatSpec == ChatInit /\ [][ChatNext]_vars

Registered(u) == \E i \in 1..Len(chat._users) : chat._users[i] = u

Deliveries(u) == Cardinality({i \in 1..Len(chat.received) : chat.received[i].to = u})

\* C28: send_message(message, user) delivers the message once to every
\* registered user other than the sender and not at all to the sender and
\* to unregistered users, however often a user was registered and whether
\* the sender is registered or not.
C28_DeliversOnceToEachOtherUser ==
    (chat.trace # << >> /\ Last(chat.trace).call = "send_message") =>
        /\ \A u \in ChatUsers :
               Deliveries(u) = IF Registered(u) /\ u # Last(chat.trace).user THEN 1 ELSE 0
        /\ \A i \in 1..Len(chat.received) :
               /\ chat.received[i].message = Last(chat.trace).message
               /\ chat.received[i].sender = Last(chat.trace).user

====
